---- MODULE Spec2Model ----
(***************************************************************************)
(* RegimeEye API (src/main.py): the five HTTP handlers of the FastAPI app  *)
(* as a state machine.                                                     *)
(*                                                                         *)
(* Conventions of the model:                                               *)
(*  - Python floats that are decimal literals of the source (weights,      *)
(*    probabilities) are carried in hundredths: 0.30 is 30, 1.0 is 100.    *)
(*  - Assumption values are integer-valued floats, so sum() is exact.      *)
(*  - The emoji glyphs of the /test status strings are written as ASCII    *)
(*    tags: "[OK]" for the check mark, "[X]" for the cross, "[!]" for the  *)
(*    warning sign; the rest of each string is the source's text.          *)
(*  - Python None is the string Null; Optional[str] values of the process  *)
(*    environment are records [set, value].                                *)
(*  - The transcendental series of /api/backtest (pow, sin, cos of t) are  *)
(*    kept as terms over the rational argument t = i/n the code computes   *)
(*    them from; the date labels are formatted character by character.     *)
(***************************************************************************)
EXTENDS Integers, Sequences, FiniteSets, TLC

VARIABLES
    db,          \* module global `db` imported from database: None or a database handle
    store,       \* the document store behind create_document: sequence of documents
    request,     \* the request most recently handled, with the outcomes of its external calls
    response,    \* the response most recently returned
    succeeded,   \* number of create_document calls that returned normally
    calls,       \* number of create_document calls made
    inflight,    \* stress_test(): the calls being stepped through, one record per call
    pc,          \* backtest(): position of the call being stepped through
    query,       \* backtest(): the parameters start, end, benchmark as received
    end,         \* backtest(): local end, after the default is applied
    i,           \* backtest(): loop index
    pts,         \* backtest(): list pts
    weights_ot   \* backtest(): list weights_ot

vars == <<db, store, request, response, succeeded, calls, inflight, pc, query, end, i, pts, weights_ot>>

backtestVars == <<pc, query, end, i, pts, weights_ot>>

----------------------------------------------------------------------------
(* Bounds of the model and the input sets drawn from them.                 *)

MaxRequests == 2
MaxDay == 2
MaxMsgLen == 51
MaxCollections == 11

Null == "null"

\* The stress-test calls of a run, in the order they are received.
Handlers == 1..MaxRequests

Names == {"base", "shock"}
AssumptionKeys == <<"a", "b">>
AssumptionValues == {-1, 1}

\* Dict[str, float] as a sequence of <<key, value>> items in insertion order.
AssumptionMaps ==
    {<<>>}
    \cup {<<<<AssumptionKeys[k], v>>>> : k \in 1..2, v \in AssumptionValues}
    \cup {<<<<AssumptionKeys[1], v>>, <<AssumptionKeys[2], w>>>> :
              v \in AssumptionValues, w \in AssumptionValues}

ScenarioRequests == [name : Names, assumptions : AssumptionMaps]

Min(a, b) == IF a < b THEN a ELSE b
Max(a, b) == IF a > b THEN a ELSE b

Pad2(k) == IF k < 10 THEN "0" \o ToString(k) ELSE ToString(k)

\* date.today().isoformat(): the wall clock read at call time.
Days == {"2026-01-" \o Pad2(d) : d \in 1..MaxDay}

\* os.getenv(NAME): unset (None), set to the empty string, set to a value.
EnvValues ==
    {[set |-> FALSE, value |-> ""], [set |-> TRUE, value |-> ""],
     [set |-> TRUE, value |-> "mongodb://localhost:27017"]}

RECURSIVE Digits(_)
Digits(len) == IF len = 0 THEN "" ELSE Digits(len - 1) \o ToString(len % 10)

\* str(e) of an exception raised by the database handle.
ErrorMessages == {Digits(len) : len \in {18, 50, MaxMsgLen}}

\* what db.list_collection_names() returns.
CollectionLists == {[k \in 1..len |-> "c" \o ToString(k)] : len \in {0, 10, MaxCollections}}

\* The values of database.db: None, or a handle with or without a name attribute.
NoDb == [handle |-> FALSE, has_name |-> FALSE, name |-> ""]
DbValues ==
    {NoDb, [handle |-> TRUE, has_name |-> TRUE, name |-> "regimeeye"],
     [handle |-> TRUE, has_name |-> FALSE, name |-> ""]}

\* What the handle does when /test uses it: <<probe, str(e), collections>>.
ProbeOutcomes ==
    {<<"attr_raises", e, <<>>>> : e \in ErrorMessages}
    \cup {<<"list_raises", e, <<>>>> : e \in ErrorMessages}
    \cup {<<"ok", "", c>> : c \in CollectionLists}

NoRequest == [endpoint |-> "none"]
NoResponse == [none |-> TRUE]
ServerError == [error |-> "Internal Server Error"]

----------------------------------------------------------------------------
(* GET /                                                                   *)

read_root ==
    /\ request' = [endpoint |-> "/"]
    /\ response' = [message |-> "RegimeEye API ready"]
    /\ UNCHANGED <<db, store, succeeded, calls, inflight, backtestVars>>

----------------------------------------------------------------------------
(* GET /api/regime-now                                                     *)

\* The snapshot with a probability mistyped.
RegimeNow_mistyped(today) ==
    [timestamp |-> today,
     regime |-> "Slowdown",
     probabilities |-> [Expansion |-> 22, Slowdown |-> 53, Contraction |-> 18, Recovery |-> 17],
     conviction |-> 84,
     weights |-> [SPY |-> 35, IEF |-> 35, GLD |-> 15, DBC |-> 10, SHY |-> 5],
     benchmark_weights |-> [SPY |-> 60, IEF |-> 40]]

RegimeNow(today) ==
    [timestamp |-> today,
     regime |-> "Slowdown",
     probabilities |-> [Expansion |-> 22, Slowdown |-> 53, Contraction |-> 18, Recovery |-> 7],
     conviction |-> 84,
     weights |-> [SPY |-> 35, IEF |-> 35, GLD |-> 15, DBC |-> 10, SHY |-> 5],
     benchmark_weights |-> [SPY |-> 60, IEF |-> 40]]

regime_now(today) ==
    /\ request' = [endpoint |-> "/api/regime-now", today |-> today]
    /\ response' = RegimeNow(today)
    /\ UNCHANGED <<db, store, succeeded, calls, inflight, backtestVars>>

----------------------------------------------------------------------------
(* POST /api/stress-test                                                   *)

\* database.create_document(collection_name, data), a call that either raises
\* or inserts: the store and the call count after it, and the identifier it
\* returns.
create_document(collection_name, data, raises) ==
    [store |-> IF raises THEN store
               ELSE Append(store, [id |-> ToString(Len(store) + 1),
                                   collection |-> collection_name, document |-> data]),
     calls |-> calls + 1,
     raised |-> raises,
     id |-> IF raises THEN Null ELSE ToString(Len(store) + 1)]

\* The ways a create_document call can end: it can always raise, and it can
\* insert only when there is a database.
CreateOutcomes == IF db.handle THEN BOOLEAN ELSE {TRUE}

RECURSIVE sum(_)
sum(items) == IF items = <<>> THEN 0 ELSE items[1][2] + sum(Tail(items))

\* The shift taken from the first assumption alone.
Shift_firstOnly(assumptions) == IF assumptions # <<>> THEN assumptions[1][2] ELSE 0

Shift(assumptions) == IF assumptions # <<>> THEN sum(assumptions) ELSE 0

Conviction(shift) == Max(0, Min(100, 70 + 5 * (IF shift < 0 THEN 1 ELSE -1)))

\* Weights that tilt to bonds when the shift is negative.
StressWeights_reactive(shift) ==
    IF shift < 0 THEN [SPY |-> 25, IEF |-> 50, GLD |-> 15, DBC |-> 7, SHY |-> 3]
    ELSE [SPY |-> 30, IEF |-> 45, GLD |-> 15, DBC |-> 7, SHY |-> 3]

StressWeights(shift) == [SPY |-> 30, IEF |-> 45, GLD |-> 15, DBC |-> 7, SHY |-> 3]

\* main.py:105-108 with a handler that lets the exception escape.
StressTestWrite_propagates(req, raises) ==
    LET r == create_document("scenario", req, raises)
    IN [store |-> r.store, calls |-> r.calls, raised |-> r.raised, scenario_id |-> r.id]

\* main.py:105-108 with a second attempt after a failed one.
StressTestWrite_retries(req, raises) ==
    LET r == create_document("scenario", req, raises)
        again == create_document("scenario", req, ~db.handle)
    IN IF r.raised
       THEN [store |-> again.store, calls |-> r.calls + 1, raised |-> FALSE,
             scenario_id |-> again.id]
       ELSE [store |-> r.store, calls |-> r.calls, raised |-> FALSE, scenario_id |-> r.id]

\* The try/except around the write: the store and the call count afterwards,
\* whether an exception leaves the block, and the local scenario_id.
StressTestWrite(req, raises) ==
    LET r == create_document("scenario", req, raises)
    IN [store |-> r.store, calls |-> r.calls, raised |-> FALSE,
        scenario_id |-> IF r.raised THEN Null ELSE r.id]

\* The handler runs in a worker thread, so several calls are in flight at a
\* time and each is stepped through statement by statement. Call t has
\* received its request; calls are numbered in the order they are received.
stress_call(t, req) ==
    /\ inflight[t].pc = "idle"
    /\ t > 1 => inflight[t - 1].pc # "idle"
    /\ inflight' = [inflight EXCEPT ![t] = [pc |-> "write", req |-> req]]
    /\ UNCHANGED <<db, store, succeeded, calls, request, response, backtestVars>>

\* Call t runs the try/except around the write; `returned` keeps what
\* create_document gave back.
stress_write(t, raises) ==
    /\ inflight[t].pc = "write"
    /\ LET req == inflight[t].req
           doc == [name |-> req.name, assumptions |-> req.assumptions]
           written == StressTestWrite(doc, raises)
       IN /\ store' = written.store
          /\ calls' = written.calls
          /\ succeeded' = IF raises THEN succeeded ELSE succeeded + 1
          /\ inflight' = [inflight EXCEPT ![t] =
                              [pc |-> "respond", req |-> req, write_raised |-> raises,
                               returned |-> create_document("scenario", doc, raises).id,
                               escaped |-> written.raised,
                               scenario_id |-> written.scenario_id]]
    /\ UNCHANGED <<db, request, response, backtestVars>>

\* Call t computes shift, conviction and weights and returns.
stress_return(t) ==
    /\ inflight[t].pc = "respond"
    /\ LET req == inflight[t].req
           shift == Shift(req.assumptions)
           conviction == Conviction(shift)
           weights == StressWeights(shift)
       IN /\ request' = [endpoint |-> "/api/stress-test", body |-> req,
                         write_raised |-> inflight[t].write_raised]
          /\ response' = IF inflight[t].escaped THEN ServerError
                         ELSE [scenario_id |-> inflight[t].scenario_id,
                               conviction |-> conviction, weights |-> weights]
    /\ inflight' = [inflight EXCEPT ![t] = [pc |-> "done"]]
    /\ UNCHANGED <<db, store, succeeded, calls, backtestVars>>

\* One step of call t of the handler.
stress_test(t, requests) ==
    \/ \E req \in requests : stress_call(t, req)
    \/ \E raises \in CreateOutcomes : stress_write(t, raises)
    \/ stress_return(t)

----------------------------------------------------------------------------
(* GET /test                                                               *)

\* str(e)[:50]
Truncate50(text) == SubSeq(text, 1, Min(50, Len(text)))

\* collections[:10]
FirstTen(names) == SubSeq(names, 1, Min(10, Len(names)))

\* main.py:120-127
InitialReport ==
    [backend |-> "[OK] Running",
     database |-> "[X] Not Available",
     database_url |-> Null,
     database_name |-> Null,
     connection_status |-> "Not Connected",
     collections |-> <<>>]

\* The outer try block with an attribute read that is not guarded.
Probe_unguarded(probe, e, collections) ==
    IF ~db.handle
    THEN [InitialReport EXCEPT !.database = "[!]  Available but not initialized"]
    ELSE IF probe = "attr_raises"
    THEN ServerError
    ELSE LET connected ==
                 [InitialReport EXCEPT
                      !.database = "[OK] Available",
                      !.database_url = "[OK] Configured",
                      !.database_name = IF db.has_name THEN db.name ELSE "[OK] Connected",
                      !.connection_status = "Connected"]
         IN IF probe = "list_raises"
            THEN [connected EXCEPT
                      !.database = "[!]  Connected but Error: " \o Truncate50(e)]
            ELSE [connected EXCEPT
                      !.collections = FirstTen(collections),
                      !.database = "[OK] Connected & Working"]

\* main.py:129-144, the report after the try block. probe is what the handle
\* does when it is used: reading its attributes raises e (line 133), listing
\* the collections raises e (line 136), or the listing returns collections.
Probe(probe, e, collections) ==
    IF ~db.handle
    THEN [InitialReport EXCEPT !.database = "[!]  Available but not initialized"]
    ELSE IF probe = "attr_raises"
    THEN [InitialReport EXCEPT
              !.database = "[X] Error: " \o Truncate50(e),
              !.database_url = "[OK] Configured"]
    ELSE LET connected ==
                 [InitialReport EXCEPT
                      !.database = "[OK] Available",
                      !.database_url = "[OK] Configured",
                      !.database_name = IF db.has_name THEN db.name ELSE "[OK] Connected",
                      !.connection_status = "Connected"]
         IN IF probe = "list_raises"
            THEN [connected EXCEPT
                      !.database = "[!]  Connected but Error: " \o Truncate50(e)]
            ELSE [connected EXCEPT
                      !.collections = FirstTen(collections),
                      !.database = "[OK] Connected & Working"]

\* truthiness of os.getenv(NAME): None and "" are both false
Truthy(value) == value.set /\ value.value # ""

\* The two final assignments applied only where the probe left no value.
EnvReport_keeps(report, url, name) ==
    [report EXCEPT
         !.database_url = IF report.database_url # Null THEN report.database_url
                          ELSE IF Truthy(url) THEN "[OK] Set" ELSE "[X] Not Set",
         !.database_name = IF report.database_name # Null THEN report.database_name
                           ELSE IF Truthy(name) THEN "[OK] Set" ELSE "[X] Not Set"]

\* main.py:146-147
EnvReport(report, url, name) ==
    [report EXCEPT
         !.database_url = IF Truthy(url) THEN "[OK] Set" ELSE "[X] Not Set",
         !.database_name = IF Truthy(name) THEN "[OK] Set" ELSE "[X] Not Set"]

test_database(probe, e, collections, url, name) ==
    /\ (probe = "none") <=> ~db.handle
    /\ request' = [endpoint |-> "/test", probe |-> probe,
                   e |-> e, collections |-> collections,
                   DATABASE_URL |-> url, DATABASE_NAME |-> name]
    /\ response' = LET report == Probe(probe, e, collections)
                   IN IF report = ServerError THEN ServerError
                      ELSE EnvReport(report, url, name)
    /\ UNCHANGED <<db, store, succeeded, calls, inflight, backtestVars>>

----------------------------------------------------------------------------
(* GET /api/backtest                                                       *)

n == 240

Starts == {"2005-01-01", "2010-06-01"}
Ends == {Null, "2015-12-31"}
Benchmarks == {"60_40", "SPY"}
Queries == [start : Starts, end : Ends, benchmark : Benchmarks]

\* The query of a request that passes no parameter.
DefaultQuery == [start |-> "2005-01-01", end |-> Null, benchmark |-> "60_40"]

\* A float the code computes from t alone by pow, sin and cos: the series'
\* name and its argument t = i / n as the fraction <<i, n>>.
Term(series, t) == [series |-> series, t |-> t]

\* The label with the year taken from the start parameter.
DateLabel_fromStart(k) ==
    SubSeq(query.start, 1, 4) \o "-" \o Pad2((k % 12) + 1) \o "-01"

\* The label with the month counted from zero.
DateLabel_zeroMonth(k) ==
    ToString(2005 + (k \div 12)) \o "-" \o Pad2(k % 12) \o "-01"

\* f"{2005 + i//12}-{(i%12)+1:02d}-01"
DateLabel(k) ==
    ToString(2005 + (k \div 12)) \o "-" \o Pad2((k % 12) + 1) \o "-01"

\* main.py:86-90
Point(k) ==
    LET t == <<k, n>>
    IN [date |-> DateLabel(k), taa |-> Term("taa", t), saa |-> Term("saa", t),
        sixty_forty |-> Term("sixty", t)]

\* main.py:92-97
WeightsAt(k) ==
    LET t == <<k, n>>
    IN [SPY |-> Term("w_spy", t), IEF |-> Term("w_ief", t), GLD |-> Term("w_gld", t),
        DBC |-> Term("w_dbc", t), SHY |-> Term("w_shy", t)]

\* One iteration that appends the weights only in the first half of the run.
LoopBody_skips(k, p, w) ==
    [pts |-> Append(p, Point(k)),
     weights_ot |-> IF 2 * k < n THEN Append(w, WeightsAt(k)) ELSE w]

\* One iteration of the loop, main.py:85-97
LoopBody(k, p, w) ==
    [pts |-> Append(p, Point(k)), weights_ot |-> Append(w, WeightsAt(k))]

\* The lists as the loop leaves them: iteration k appends element k + 1.
Series ==
    [pts |-> [k \in 1..n |-> Point(k - 1)],
     weights_ot |-> [k \in 1..n |-> WeightsAt(k - 1)]]

DefaultEnd(q, today) == IF q.end = Null THEN today ELSE q.end

\* main.py:99
BacktestResponse(p, w) == [equity_curve |-> p, weights_over_time |-> w]

\* The whole handler in one step. The default of end (main.py:77-78) assigns
\* a local that is never read; the statement-by-statement actions carry it.
backtest(q) ==
    /\ request' = [endpoint |-> "/api/backtest", query |-> q]
    /\ response' = BacktestResponse(Series.pts, Series.weights_ot)
    /\ UNCHANGED <<db, store, succeeded, calls, inflight, backtestVars>>

\* The handler statement by statement: main.py:73-83
backtest_call(q, today) ==
    /\ pc = "idle"
    /\ pc' = "loop"
    /\ query' = q
    /\ end' = DefaultEnd(q, today)
    /\ i' = 0
    /\ pts' = <<>>
    /\ weights_ot' = <<>>
    /\ UNCHANGED <<db, store, succeeded, calls, inflight, request, response>>

\* main.py:85-97, one iteration
backtest_loop ==
    /\ pc = "loop"
    /\ i < n
    /\ LET next == LoopBody(i, pts, weights_ot)
       IN /\ pts' = next.pts
          /\ weights_ot' = next.weights_ot
    /\ i' = i + 1
    /\ UNCHANGED <<db, store, succeeded, calls, inflight, request, response, pc, query, end>>

\* main.py:99, once range(n) is exhausted
backtest_return ==
    /\ pc = "loop"
    /\ i >= n
    /\ pc' = "idle"
    /\ request' = [endpoint |-> "/api/backtest", query |-> query]
    /\ response' = BacktestResponse(pts, weights_ot)
    /\ UNCHANGED <<db, store, succeeded, calls, inflight, query, end, i, pts, weights_ot>>

----------------------------------------------------------------------------
(* The server.                                                             *)

Init ==
    /\ db \in DbValues
    /\ store = <<>>
    /\ request = NoRequest
    /\ response = NoResponse
    /\ succeeded = 0
    /\ calls = 0
    /\ inflight = [t \in Handlers |-> [pc |-> "idle"]]
    /\ pc = "idle"
    /\ query = DefaultQuery
    /\ end = Null
    /\ i = 0
    /\ pts = <<>>
    /\ weights_ot = <<>>

Unset == [set |-> FALSE, value |-> ""]

\* /test without a handle, and with a handle that answers with no collection.
ProbeSample == {<<"none", "", <<>>>>, <<"ok", "", <<>>>>}

\* The requests of the stress-test calls of Spec: every assumptions mapping.
SpecRequests == {r \in ScenarioRequests : r.name = "base"}

\* MaxRequests stress-test calls in flight, interleaved with each other and
\* with /, /api/regime-now and /test (with an empty environment).
Next ==
    \/ read_root
    \/ \E today \in Days : regime_now(today)
    \/ \E t \in Handlers : stress_test(t, SpecRequests)
    \/ \E o \in ProbeSample : test_database(o[1], o[2], o[3], Unset, Unset)

Spec == Init /\ [][Next]_vars

\* /test under every environment and every behaviour of the handle.
NextDiag ==
    \/ read_root
    \/ \E o \in ProbeOutcomes \cup {<<"none", "", <<>>>>}, url \in EnvValues, name \in EnvValues :
           test_database(o[1], o[2], o[3], url, name)

SpecDiag == Init /\ [][NextDiag]_vars

\* The requests of the stress-test calls of SpecStore: both names, two mappings.
StoreRequests ==
    {r \in ScenarioRequests : Len(r.assumptions) = 0 \/ r.assumptions = <<<<"a", -1>>>>}

\* MaxRequests stress-test calls in flight, interleaved with each other and
\* with the other four handlers.
NextStore ==
    \/ read_root
    \/ \E today \in Days : regime_now(today)
    \/ backtest(DefaultQuery)
    \/ \E o \in ProbeSample : test_database(o[1], o[2], o[3], Unset, Unset)
    \/ \E t \in Handlers : stress_test(t, StoreRequests)

SpecStore == Init /\ [][NextStore]_vars

\* One backtest call at a time, statement by statement.
InitBacktest == Init /\ db = NoDb

NextBacktest ==
    \/ \E q \in Queries, today \in Days : backtest_call(q, today)
    \/ backtest_loop
    \/ backtest_return

SpecBacktest == InitBacktest /\ [][NextBacktest]_vars

----------------------------------------------------------------------------
(* Properties.                                                             *)

Assets == {"SPY", "IEF", "GLD", "DBC", "SHY"}

IsStress == request.endpoint = "/api/stress-test"
IsRegime == request.endpoint = "/api/regime-now"
IsBacktest == request.endpoint = "/api/backtest"
IsDiag == request.endpoint = "/test"

StressKeys == {"scenario_id", "conviction", "weights"}

\* The total of a mapping's values, added from the last item to the first.
RECURSIVE TotalOf(_)
TotalOf(items) ==
    IF Len(items) = 0 THEN 0
    ELSE items[Len(items)][2] + TotalOf(SubSeq(items, 1, Len(items) - 1))

ExpectedConviction(assumptions) == IF TotalOf(assumptions) < 0 THEN 75 ELSE 65

FixedWeights == [SPY |-> 30, IEF |-> 45, GLD |-> 15, DBC |-> 7, SHY |-> 3]

\* C1: when create_document raises, the stress-test handler still returns a
\* normal response: scenario_id is null, and conviction and weights are the
\* values the request's assumptions give on a successful write; nothing was
\* stored and the failure does not reach the caller.
C1_FailedWriteIsAbsorbed ==
    (IsStress /\ request.write_raised) =>
        /\ DOMAIN response = StressKeys
        /\ response.scenario_id = Null
        /\ response.conviction = ExpectedConviction(request.body.assumptions)
        /\ response.weights = FixedWeights

C1_Witness ==
    /\ IsStress
    /\ request.write_raised
    /\ db.handle
    /\ Len(store) = 1
    /\ TotalOf(request.body.assumptions) < 0
    /\ response.scenario_id = Null
    /\ response.conviction = 75

C3_WeightsAreFixed ==
    IsStress =>
        /\ DOMAIN response = StressKeys
        /\ DOMAIN response.weights = Assets
        /\ response.weights = FixedWeights

C3_Witness ==
    /\ IsStress
    /\ ~request.write_raised
    /\ TotalOf(request.body.assumptions) < 0
    /\ response.weights.SPY = 30
    /\ response.weights.IEF = 45

\* C9: every regime-now response has regime "Slowdown", conviction 84, four
\* probabilities (Expansion, Slowdown, Contraction, Recovery) that sum to 1.0,
\* five weights that sum to 1.0 and two benchmark weights that sum to 1.0;
\* the timestamp is the date read from the clock and is all that varies.
C9_RegimeSnapshotIsFixed ==
    IsRegime =>
        /\ DOMAIN response = {"timestamp", "regime", "probabilities", "conviction",
                              "weights", "benchmark_weights"}
        /\ response.regime = "Slowdown"
        /\ response.conviction = 84
        /\ DOMAIN response.probabilities = {"Expansion", "Slowdown", "Contraction", "Recovery"}
        /\ response.probabilities.Expansion + response.probabilities.Slowdown
               + response.probabilities.Contraction + response.probabilities.Recovery = 100
        /\ DOMAIN response.weights = Assets
        /\ response.weights.SPY + response.weights.IEF + response.weights.GLD
               + response.weights.DBC + response.weights.SHY = 100
        /\ DOMAIN response.benchmark_weights = {"SPY", "IEF"}
        /\ response.benchmark_weights.SPY + response.benchmark_weights.IEF = 100
        /\ response.timestamp = request.today
        /\ [response EXCEPT !.timestamp = ""] =
               [timestamp |-> "",
                regime |-> "Slowdown",
                probabilities |-> [Expansion |-> 22, Slowdown |-> 53, Contraction |-> 18,
                                   Recovery |-> 7],
                conviction |-> 84,
                weights |-> [SPY |-> 35, IEF |-> 35, GLD |-> 15, DBC |-> 10, SHY |-> 5],
                benchmark_weights |-> [SPY |-> 60, IEF |-> 40]]

C9_Witness ==
    /\ IsRegime
    /\ response.timestamp = "2026-01-02"
    /\ response.conviction = 84
    /\ Len(store) = 1

\* A stress-test call that has passed its try/except.
PastWrite(slot) == slot.pc \in {"respond", "done"}

\* C10: each stress-test call makes exactly one create_document call, a
\* failed one is not repeated, and no other step of any handler touches the
\* store: a successful call appends exactly the scenario document of its own
\* request, a failed call and every other step leave the store alone, the
\* scenario_id a call returns is the identifier its create_document call
\* returned, and under every interleaving the number of stored documents is
\* the number of successful writes and the number of create_document calls
\* is the number of stress-test calls past their try/except.
C10_OneWritePerStressTest ==
    [][/\ \A t \in Handlers :
              /\ (inflight[t].pc = "write" /\ inflight'[t].pc # "write") =>
                     /\ calls' = calls + 1
                     /\ inflight'[t].write_raised => store' = store
                     /\ ~inflight'[t].write_raised =>
                            store' = Append(store,
                                [id |-> inflight'[t].returned,
                                 collection |-> "scenario",
                                 document |-> [name |-> inflight[t].req.name,
                                               assumptions |-> inflight[t].req.assumptions]])
              /\ (inflight[t].pc = "respond" /\ inflight'[t].pc # "respond") =>
                     /\ request'.endpoint = "/api/stress-test"
                     /\ DOMAIN response' = StressKeys
                     /\ response'.scenario_id = inflight[t].returned
       /\ (\A t \in Handlers : inflight[t].pc = "write" => inflight'[t].pc = "write") =>
              /\ store' = store
              /\ calls' = calls
       /\ Len(store') = succeeded'
       /\ calls' = Cardinality({t \in Handlers : PastWrite(inflight'[t])})
      ]_vars

\* Two calls in flight at once, the one received second wrote first, both
\* writes succeeded and neither call has returned yet.
C10_Witness ==
    /\ inflight[1].pc = "respond"
    /\ inflight[2].pc = "respond"
    /\ Len(store) = 2
    /\ succeeded = 2
    /\ calls = 2
    /\ store[1].id = inflight[2].returned
    /\ store[2].id = inflight[1].returned
    /\ store[1].document.name # store[2].document.name

\* Whether text is tag followed by at most the first 50 characters of e.
CarriesAtMost50(text, tag, e) ==
    \E k \in 0..50 : k <= Len(e) /\ text = tag \o SubSeq(e, 1, k)

IsPrefix(short, long) ==
    Len(short) <= Len(long) /\ short = SubSeq(long, 1, Len(short))

DiagKeys ==
    {"backend", "database", "database_url", "database_name", "connection_status",
     "collections"}

\* C7: /test returns a normal response with backend Running whether there is
\* no handle, the listing succeeds, the listing raises or reading the handle's
\* attributes raises; a failure shows only in the database field, which
\* carries at most the first 50 characters of the message, and collections
\* holds at most 10 names.
C7_DiagnosticNeverFails ==
    IsDiag =>
        /\ DOMAIN response = DiagKeys
        /\ response.backend = "[OK] Running"
        /\ Len(response.collections) <= 10
        /\ IsPrefix(response.collections, request.collections)
        /\ request.probe = "none" =>
               response.database = "[!]  Available but not initialized"
        /\ request.probe = "ok" => response.database = "[OK] Connected & Working"
        /\ request.probe = "list_raises" =>
               /\ CarriesAtMost50(response.database, "[!]  Connected but Error: ", request.e)
               /\ response.collections = <<>>
        /\ request.probe = "attr_raises" =>
               /\ CarriesAtMost50(response.database, "[X] Error: ", request.e)
               /\ response.collections = <<>>

C7_Witness ==
    /\ IsDiag
    /\ request.probe = "attr_raises"
    /\ Len(request.e) > 50
    /\ response.backend = "[OK] Running"
    /\ Len(response.database) = Len("[X] Error: ") + 50

\* C8 as stated: database_url reports set exactly when DATABASE_URL is set,
\* and database_name exactly when DATABASE_NAME is set.
C8_ReportsSetExactlyWhenSet ==
    IsDiag =>
        /\ response.database_url =
               IF request.DATABASE_URL.set THEN "[OK] Set" ELSE "[X] Not Set"
        /\ response.database_name =
               IF request.DATABASE_NAME.set THEN "[OK] Set" ELSE "[X] Not Set"

\* C8, amended: database_url reports set exactly when DATABASE_URL is set to
\* a non-empty value and "Not Set" otherwise (unset or empty), and
\* database_name likewise for DATABASE_NAME; the two fields depend on nothing
\* else, for every state of the handle, and carry neither a value taken from
\* the handle nor the variables' values.
C8_ReportsSetExactlyWhenNonEmpty ==
    IsDiag =>
        /\ DOMAIN response = DiagKeys
        /\ response.database_url =
               IF request.DATABASE_URL.set /\ request.DATABASE_URL.value # ""
               THEN "[OK] Set" ELSE "[X] Not Set"
        /\ response.database_name =
               IF request.DATABASE_NAME.set /\ request.DATABASE_NAME.value # ""
               THEN "[OK] Set" ELSE "[X] Not Set"

C8_Witness ==
    /\ IsDiag
    /\ db.handle
    /\ db.has_name
    /\ request.probe = "ok"
    /\ request.DATABASE_URL.set
    /\ request.DATABASE_URL.value = ""
    /\ ~request.DATABASE_NAME.set
    /\ response.database_url = "[X] Not Set"
    /\ response.database_name = "[X] Not Set"

\* The statement-by-statement run returns what the one-step handler returns.
StepwiseMatchesWhole ==
    IsBacktest => response = BacktestResponse(Series.pts, Series.weights_ot)

\* C4: during generation pts and weights_ot have the same length after every
\* iteration; every backtest response holds exactly 240 equity-curve points
\* and 240 weight mappings, and every weight mapping has exactly the keys
\* SPY, IEF, GLD, DBC, SHY.
C4_CurveAndWeightsInLockstep ==
    /\ Len(pts) = Len(weights_ot)
    /\ Len(pts) = i
    /\ \A k \in 1..Len(weights_ot) : DOMAIN weights_ot[k] = Assets
    /\ IsBacktest =>
           /\ DOMAIN response = {"equity_curve", "weights_over_time"}
           /\ Len(response.equity_curve) = 240
           /\ Len(response.weights_over_time) = 240
           /\ \A k \in 1..Len(response.weights_over_time) :
                  DOMAIN response.weights_over_time[k] = Assets

C4_Witness ==
    /\ IsBacktest
    /\ Len(response.equity_curve) = 240
    /\ Len(response.weights_over_time) = 240
    /\ pc = "loop"
    /\ Len(pts) = 121
    /\ Len(weights_ot) = 121

\* Reading a label back: the number written by the decimal digits of text.
DigitOf(char) == CHOOSE d \in 0..9 : ToString(d) = char

IsDigit(char) == \E d \in 0..9 : ToString(d) = char

RECURSIVE NumberOf(_)
NumberOf(text) ==
    IF Len(text) = 0 THEN 0
    ELSE 10 * NumberOf(SubSeq(text, 1, Len(text) - 1)) + DigitOf(SubSeq(text, Len(text), Len(text)))

AllDigits(text) == \A k \in 1..Len(text) : IsDigit(SubSeq(text, k, k))

\* text is YYYY-MM-DD
IsIsoDate(text) ==
    /\ Len(text) = 10
    /\ AllDigits(SubSeq(text, 1, 4))
    /\ SubSeq(text, 5, 5) = "-"
    /\ AllDigits(SubSeq(text, 6, 7))
    /\ SubSeq(text, 8, 8) = "-"
    /\ AllDigits(SubSeq(text, 9, 10))

YearOf(text) == NumberOf(SubSeq(text, 1, 4))
MonthOf(text) == NumberOf(SubSeq(text, 6, 7))
DayOf(text) == NumberOf(SubSeq(text, 9, 10))

\* Point k (from 1) of curve is dated the first of month ((k-1) mod 12) + 1 of
\* year 2005 + (k-1) div 12, one calendar month after point k - 1.
DateIsMonth(curve, k) ==
    /\ IsIsoDate(curve[k].date)
    /\ YearOf(curve[k].date) = 2005 + ((k - 1) \div 12)
    /\ MonthOf(curve[k].date) = ((k - 1) % 12) + 1
    /\ MonthOf(curve[k].date) \in 1..12
    /\ DayOf(curve[k].date) = 1
    /\ k > 1 =>
           12 * YearOf(curve[k].date) + MonthOf(curve[k].date)
               = 12 * YearOf(curve[k - 1].date) + MonthOf(curve[k - 1].date) + 1

\* C5: point i (from 0) of the equity curve is dated year 2005 + i div 12,
\* month (i mod 12) + 1 in two digits, day 01: point 0 is 2005-01-01, point
\* 239 is 2024-12-01, and each point is one calendar month after the one
\* before it. Checked on the point each iteration appends and on every point
\* of a response when it is returned.
C5_DatesAreConsecutiveMonths ==
    /\ Len(pts) > 0 => DateIsMonth(pts, Len(pts))
    /\ (IsBacktest /\ pc = "idle") =>
           /\ \A k \in 1..Len(response.equity_curve) : DateIsMonth(response.equity_curve, k)
           /\ response.equity_curve[1].date = "2005-01-01"
           /\ response.equity_curve[240].date = "2024-12-01"

C5_Witness ==
    /\ IsBacktest
    /\ pc = "idle"
    /\ Len(response.equity_curve) = 240
    /\ response.equity_curve[240].date = "2024-12-01"
    /\ response.equity_curve[13].date = "2006-01-01"

\* C6: a backtest response is the same whatever start, end and benchmark were
\* sent: each response equals the one returned before it.
C6_ResponseIgnoresQuery ==
    [][(IsBacktest /\ request'.endpoint = "/api/backtest") => response' = response]_vars

C6_Witness ==
    /\ IsBacktest
    /\ pc = "loop"
    /\ i = 240
    /\ query.start # request.query.start
    /\ query.benchmark # request.query.benchmark
    /\ query.end = Null
    /\ request.query.end # Null
    /\ end \in Days
    /\ BacktestResponse(pts, weights_ot) = response

====
